---- MODULE Spec2Model ----
(***************************************************************************)
(* msg-store: the in-memory StorageService of src/src/service.rs.          *)
(*                                                                         *)
(* State: the AtomicU64 last_id, the two-level table                       *)
(* entries : TenantId -> RwLock<HashMap<Key, u64>> behind an outer         *)
(* tokio RwLock, and one program counter with locals per request task.     *)
(* Every .await on a lock is a separate step; the statements between two   *)
(* awaits run in the step that follows the grant of the awaited lock.      *)
(***************************************************************************)
EXTENDS Integers, Sequences, FiniteSets, TLC

\* ---------------------------------------------------------------- bounds
\* number of request tasks served concurrently
NumTasks == 2
\* total number of process() calls accepted over the service's life
MaxCalls == 3
\* longest raw key presented to Key::new
MaxRawLen == 10
\* number of positions in which a presented raw key departs from a sample
MaxDeviations == 2

Tasks == 1..NumTasks

\* ------------------------------------------------------------ input data
\* tenants of tests::test_storage_service_default_sample_data
Tenants == {"3bd1c697", "75682017"}

\* raw keys, as sequences of characters
KeyA == <<"K", "-", "h", "5", "3", "d", "k", "-", "A">>
KeyC == <<"K", "-", "8", "6", "7", "v", "c", "-", "C">>
NotAKey == <<"n", "o", "t", "-", "a", "-", "k", "e", "y">>
RawKeys == {KeyA, KeyC, NotAKey}

\* characters a raw key is written with: an uppercase letter, a lowercase
\* letter, a digit, the dash and a character of no class of the pattern
Alphabet == {"K", "h", "5", "-", "_"}

\* the sample padded with "_" or cut to length n, then rewritten at the
\* positions of f
Rewrite(sample, n, f) ==
    [i \in 1..n |-> IF i \in DOMAIN f THEN f[i]
                     ELSE IF i <= Len(sample) THEN sample[i] ELSE "_"]

\* the raw keys presented to Key::new: every sample, at every length up to
\* MaxRawLen, with up to MaxDeviations characters replaced
KeyInputs ==
    {Rewrite(sample, n, f) :
        sample \in RawKeys, n \in 0..MaxRawLen,
        f \in UNION {[D -> Alphabet] :
                       D \in {X \in SUBSET (1..MaxRawLen) :
                                 Cardinality(X) <= MaxDeviations}}}

\* the characters of [A-Z], [a-z] and [0-9] that occur in the raw keys
Upper == {"A", "C", "K"}
Lower == {"a", "c", "d", "e", "h", "k", "n", "o", "t", "v", "y"}
Digit == {"3", "5", "6", "7", "8"}

\* ------------------------------------------------------------ Key::new
\* the regex of line 25 between its anchors: each item is a character
\* class with its repetition count
Item(class, n) == [class |-> class, n |-> n]

\* the middle run shortened to four characters
KeyRegexFour ==
    <<Item(Upper, 1), Item({"-"}, 1), Item(Lower \cup Digit, 4),
      Item({"-"}, 1), Item(Upper, 1)>>

\* the middle class without the digits
KeyRegexNoDigit ==
    <<Item(Upper, 1), Item({"-"}, 1), Item(Lower, 5),
      Item({"-"}, 1), Item(Upper, 1)>>

KeyRegex ==
    <<Item(Upper, 1), Item({"-"}, 1), Item(Lower \cup Digit, 5),
      Item({"-"}, 1), Item(Upper, 1)>>

\* the items of re from the i-th on consume s from position pos up to its
\* end: ^ starts the match at position 1, $ ends it after the last character
RECURSIVE MatchFrom(_, _, _, _)
MatchFrom(re, i, s, pos) ==
    IF i > Len(re)
    THEN pos = Len(s) + 1
    ELSE /\ pos + re[i].n - 1 <= Len(s)
         /\ \A j \in pos..(pos + re[i].n - 1) : s[j] \in re[i].class
         /\ MatchFrom(re, i + 1, s, pos + re[i].n)

\* KEY_PATTERN.is_match(&key)
KEY_PATTERN(s) == MatchFrom(KeyRegex, 1, s, 1)

\* Key::new without the pattern test
KeyNewUnchecked(raw) == [ok |-> TRUE, key |-> raw]

\* Key::new: Ok(Key(key)) when the pattern matches, Err(KeyPatternNotValid)
KeyNew(raw) ==
    IF KEY_PATTERN(raw) THEN [ok |-> TRUE, key |-> raw]
                        ELSE [ok |-> FALSE, key |-> raw]

\* ------------------------------------------------------- tokio::RwLock
\* A lock is its set of read guards, its write guard and the FIFO queue of
\* tasks waiting for a guard (tokio's RwLock grants in arrival order).
NoTask == 0
FreeLock == [readers |-> {}, writer |-> NoTask, queue |-> <<>>]

CanGrant(l, mode) ==
    IF mode = "r" THEN l.writer = NoTask
                  ELSE l.writer = NoTask /\ l.readers = {}

Grant(l, p, mode) ==
    IF mode = "r" THEN [l EXCEPT !.readers = @ \cup {p}]
                  ELSE [l EXCEPT !.writer = p]

\* read().await / write().await: granted at once when nobody waits and the
\* guard is compatible, queued otherwise
Acquire(l, p, mode) ==
    IF l.queue = <<>> /\ CanGrant(l, mode)
    THEN Grant(l, p, mode)
    ELSE [l EXCEPT !.queue = Append(@, <<p, mode>>)]

RECURSIVE Drain(_)
Drain(l) ==
    IF l.queue # <<>> /\ CanGrant(l, Head(l.queue)[2])
    THEN Drain(Grant([l EXCEPT !.queue = Tail(@)], Head(l.queue)[1], Head(l.queue)[2]))
    ELSE l

\* a guard is dropped and the waiters are left asleep
ReleaseNoWake(l, p) ==
    [l EXCEPT !.readers = @ \ {p},
              !.writer = IF @ = p THEN NoTask ELSE @]

\* dropping a guard hands the lock to the waiters at the head of the queue
Release(l, p) ==
    Drain([l EXCEPT !.readers = @ \ {p},
                    !.writer = IF @ = p THEN NoTask ELSE @])

HoldsRead(l, p) == p \in l.readers
HoldsWrite(l, p) == l.writer = p

\* ---------------------------------------------------------------- state
VARIABLES
    last_id,      \* StorageService.last_id
    entries,      \* StorageService.entries: tenant -> (key -> id)
    outer,        \* the RwLock around the TenantMap
    inner,        \* tenant -> the RwLock around that tenant's HashMap
    pc,           \* task -> position in process()/insert()
    tenant_id,    \* task -> insert's argument tenant_id
    key,          \* task -> insert's argument key
    id,           \* task -> the local id
    present,      \* task -> was the pair stored when the call began
    kept,         \* task -> has the pair been stored ever since the call began
    minted,       \* the values get_next_id has returned, in order
    stored,       \* every <<tenant, key, id>> ever written into entries
    history,      \* the responses of process(), in order of return
    calls         \* number of process() calls accepted so far

vars == <<last_id, entries, outer, inner, pc, tenant_id, key, id, present,
          kept, minted, stored, history, calls>>

NoTenant == ""
NoKey == <<>>
\* Option<u64>: None, Some(v)
None == <<>>
Some(v) == <<v>>

\* the key is never found
LookupNone(t, k) == None

\* the id of whichever key the tenant holds is taken for the key's
LookupAnyKey(t, k) ==
    IF DOMAIN entries[t] # {}
    THEN Some(entries[t][CHOOSE x \in DOMAIN entries[t] : TRUE])
    ELSE None

\* HashMap::contains_key / HashMap::get on the two levels
ContainsTenant(t) == t \in DOMAIN entries
Lookup(t, k) ==
    IF k \in DOMAIN entries[t] THEN Some(entries[t][k]) ELSE None
IsStored(t, k) == ContainsTenant(t) /\ k \in DOMAIN entries[t]

\* HashMap::insert: adds the key or replaces its value
MapInsert(m, k, v) == [x \in DOMAIN m \cup {k} |-> IF x = k THEN v ELSE m[x]]
EmptyMap == [x \in {} |-> 0]

\* ---------------------------------------------------------------- Default
DefaultLastId == 1

Init ==
    /\ last_id = DefaultLastId
    /\ entries = EmptyMap
    /\ outer = FreeLock
    /\ inner = [t \in Tenants |-> FreeLock]
    /\ pc = [p \in Tasks |-> "idle"]
    /\ tenant_id = [p \in Tasks |-> NoTenant]
    /\ key = [p \in Tasks |-> NoKey]
    /\ id = [p \in Tasks |-> 0]
    /\ present = [p \in Tasks |-> FALSE]
    /\ kept = [p \in Tasks |-> FALSE]
    /\ minted = <<>>
    /\ stored = {}
    /\ history = <<>>
    /\ calls = 0

\* ------------------------------------------------------------ get_next_id
\* fetch_add(1, SeqCst): returns the previous value, stores previous + 1.
\* The u64 wraps at 2^64; the counter advances once per accepted call, so
\* within MaxCalls calls it stays far below the wrap.
\* fetch_add mistaken for an add-then-fetch: the new value is returned
FetchAddResultNew(v) == v + 1
FetchAddResult(v) == v
\* the counter is read but never advanced
FetchAddStoreStuck(v) == v
\* the counter advances by two
FetchAddStoreSkip(v) == v + 2
FetchAddStore(v) == v + 1

\* ---------------------------------------------------------------- returns
Response(p, new, v) ==
    [tenant |-> tenant_id[p], key |-> key[p], status |-> "Ok",
     new |-> new, id |-> v, present |-> present[p]]

\* the calls in flight, other than p's, whose pair is still stored in tab
Keep(p, tab) ==
    kept' = [q \in Tasks |->
                /\ q # p
                /\ kept[q]
                /\ tenant_id[q] \in DOMAIN tab
                /\ key[q] \in DOMAIN tab[tenant_id[q]]]

\* insert returns (new, v); process wraps it in Ok(Response)
Return(p, new, v) ==
    /\ history' = Append(history, Response(p, new, v))
    /\ pc' = [pc EXCEPT ![p] = "idle"]
    /\ tenant_id' = [tenant_id EXCEPT ![p] = NoTenant]
    /\ key' = [key EXCEPT ![p] = NoKey]
    /\ id' = [id EXCEPT ![p] = 0]
    /\ present' = [present EXCEPT ![p] = FALSE]

\* ---------------------------------------------------------------- process
\* a call whose key passes Key::new enters insert, whose first effect is
\* line 70's self.entries.read().await
ProcessOk(p, t, raw) ==
    /\ pc[p] = "idle"
    /\ calls < MaxCalls
    /\ KeyNew(raw).ok
    /\ calls' = calls + 1
    /\ outer' = Acquire(outer, p, "r")
    /\ pc' = [pc EXCEPT ![p] = "l70_contains_key"]
    /\ tenant_id' = [tenant_id EXCEPT ![p] = t]
    /\ key' = [key EXCEPT ![p] = KeyNew(raw).key]
    /\ present' = [present EXCEPT ![p] = IsStored(t, raw)]
    /\ kept' = [kept EXCEPT ![p] = IsStored(t, raw)]
    /\ UNCHANGED <<last_id, entries, inner, id, minted, stored, history>>

\* a call whose key fails Key::new returns Status::invalid_argument
ProcessErr(p, t, raw) ==
    /\ pc[p] = "idle"
    /\ calls < MaxCalls
    /\ ~KeyNew(raw).ok
    /\ calls' = calls + 1
    /\ history' = Append(history,
          [tenant |-> t, key |-> raw, status |-> "InvalidArgument",
           new |-> FALSE, id |-> 0, present |-> FALSE])
    /\ UNCHANGED <<last_id, entries, outer, inner, pc, tenant_id, key, id,
                   present, kept, minted, stored>>

\* ----------------------------------------------------------------- insert
\* get_next_id (lines 64-66), called from Case 1 and Case 2
get_next_id(p, next) ==
    /\ id' = [id EXCEPT ![p] = FetchAddResult(last_id)]
    /\ last_id' = FetchAddStore(last_id)
    /\ minted' = Append(minted, FetchAddResult(last_id))
    /\ pc' = [pc EXCEPT ![p] = next]

\* the unwrap() of get(&tenant_id) found None: the task unwinds, dropping
\* its guard on the outer lock
Panic(p) ==
    /\ pc' = [pc EXCEPT ![p] = "panicked"]
    /\ outer' = Release(outer, p)
    /\ UNCHANGED <<last_id, entries, inner, tenant_id, key, id, present, kept,
                   minted, stored, history, calls>>

\* the tenant is taken for new whatever the table holds
TenantIsNewAlways(t) == TRUE

\* the tenant is taken for known whatever the table holds
TenantIsNewNever(t) == FALSE

\* the test of line 70 on the tenant table
TenantIsNew(t) == ~ContainsTenant(t)

\* line 70: .contains_key(&tenant_id); the guard is a temporary of the
\* condition and is dropped before either branch runs
ContainsKey(p) ==
    /\ pc[p] = "l70_contains_key"
    /\ HoldsRead(outer, p)
    /\ outer' = Release(outer, p)
    /\ pc' = [pc EXCEPT ![p] =
                 IF TenantIsNew(tenant_id[p]) THEN "l72_get_next_id"
                                              ELSE "l83_read"]
    /\ UNCHANGED <<last_id, entries, inner, tenant_id, key, id, present, kept,
                   minted, stored, history, calls>>

\* Case 1, lines 71-73: a fresh tenant_map holding key -> id
Case1GetNextId(p) ==
    /\ pc[p] = "l72_get_next_id"
    /\ get_next_id(p, "l75_write")
    /\ UNCHANGED <<entries, outer, inner, tenant_id, key, present, kept, stored,
                   history, calls>>

\* Case 1, lines 74-76: self.entries.write().await
Case1WriteEntries(p) ==
    /\ pc[p] = "l75_write"
    /\ outer' = Acquire(outer, p, "w")
    /\ pc' = [pc EXCEPT ![p] = "l77_insert"]
    /\ UNCHANGED <<last_id, entries, inner, tenant_id, key, id, present, kept,
                   minted, stored, history, calls>>

\* the table after line 77: the tenant is mapped to the fresh tenant_map,
\* whatever it was mapped to before
InsertTenantMap(tab, t, k, v) ==
    MapInsert(tab, t, MapInsert(EmptyMap, k, v))

\* Case 1, lines 77-78: .insert(tenant_id, RwLock::new(tenant_map)); (true, id)
Case1Insert(p) ==
    /\ pc[p] = "l77_insert"
    /\ HoldsWrite(outer, p)
    /\ entries' = InsertTenantMap(entries, tenant_id[p], key[p], id[p])
    /\ Keep(p, InsertTenantMap(entries, tenant_id[p], key[p], id[p]))
    /\ inner' = [inner EXCEPT ![tenant_id[p]] = FreeLock]
    /\ stored' = stored \cup {<<tenant_id[p], key[p], id[p]>>}
    /\ outer' = Release(outer, p)
    /\ Return(p, TRUE, id[p])
    /\ UNCHANGED <<last_id, minted, calls>>

\* lines 81-84: self.entries.read().await
LookupReadEntries(p) ==
    /\ pc[p] = "l83_read"
    /\ outer' = Acquire(outer, p, "r")
    /\ pc' = [pc EXCEPT ![p] = "l85_get"]
    /\ UNCHANGED <<last_id, entries, inner, tenant_id, key, id, present, kept,
                   minted, stored, history, calls>>

\* lines 85-88: .get(&tenant_id).unwrap().read().await, outer guard kept
LookupReadTenant(p) ==
    /\ pc[p] = "l85_get"
    /\ HoldsRead(outer, p)
    /\ IF ContainsTenant(tenant_id[p])
       THEN /\ inner' = [inner EXCEPT ![tenant_id[p]] = Acquire(@, p, "r")]
            /\ pc' = [pc EXCEPT ![p] = "l89_get"]
            /\ UNCHANGED <<last_id, entries, outer, tenant_id, key, id,
                           present, kept, minted, stored, history, calls>>
       ELSE Panic(p)

\* Case 3 answers is_new = true
Case3ResultNew(v) == <<TRUE, v>>

\* what Case 3 answers for the value found
Case3Result(v) == <<FALSE, v>>

\* lines 89-92 and 108: .get(&key).cloned() finds Some(value); both guards
\* are dropped, inner first, and Case 3 returns (false, value)
Case3(p) ==
    /\ pc[p] = "l89_get"
    /\ HoldsRead(inner[tenant_id[p]], p)
    /\ Lookup(tenant_id[p], key[p]) # None
    /\ inner' = [inner EXCEPT ![tenant_id[p]] = Release(@, p)]
    /\ outer' = Release(outer, p)
    /\ Return(p, Case3Result(Lookup(tenant_id[p], key[p])[1])[1],
                 Case3Result(Lookup(tenant_id[p], key[p])[1])[2])
    /\ Keep(p, entries)
    /\ UNCHANGED <<last_id, entries, minted, stored, calls>>

\* lines 89-92: .get(&key).cloned() finds None; both guards are dropped,
\* inner first, and the match takes Case 2
LookupGetKey(p) ==
    /\ pc[p] = "l89_get"
    /\ HoldsRead(inner[tenant_id[p]], p)
    /\ Lookup(tenant_id[p], key[p]) = None
    /\ inner' = [inner EXCEPT ![tenant_id[p]] = Release(@, p)]
    /\ outer' = Release(outer, p)
    /\ pc' = [pc EXCEPT ![p] = "l95_get_next_id"]
    /\ UNCHANGED <<last_id, entries, tenant_id, key, id, present, kept, minted,
                   stored, history, calls>>

\* Case 2, lines 94-95
Case2GetNextId(p) ==
    /\ pc[p] = "l95_get_next_id"
    /\ get_next_id(p, "l97_write")
    /\ UNCHANGED <<entries, outer, inner, tenant_id, key, present, kept, stored,
                   history, calls>>

\* Case 2, lines 96-98: self.entries.write().await
Case2WriteEntries(p) ==
    /\ pc[p] = "l97_write"
    /\ outer' = Acquire(outer, p, "w")
    /\ pc' = [pc EXCEPT ![p] = "l99_get"]
    /\ UNCHANGED <<last_id, entries, inner, tenant_id, key, id, present, kept,
                   minted, stored, history, calls>>

\* Case 2, lines 99-102: .get(&tenant_id).unwrap().write().await
Case2WriteTenant(p) ==
    /\ pc[p] = "l99_get"
    /\ HoldsWrite(outer, p)
    /\ IF ContainsTenant(tenant_id[p])
       THEN /\ inner' = [inner EXCEPT ![tenant_id[p]] = Acquire(@, p, "w")]
            /\ pc' = [pc EXCEPT ![p] = "l103_insert"]
            /\ UNCHANGED <<last_id, entries, outer, tenant_id, key, id,
                           present, kept, minted, stored, history, calls>>
       ELSE Panic(p)

\* the table after line 103: key -> id added to, or replaced in, the
\* tenant's map
InsertKey(tab, t, k, v) == [tab EXCEPT ![t] = MapInsert(@, k, v)]

\* Case 2, lines 103-104: .insert(key, id); (true, id)
Case2Insert(p) ==
    /\ pc[p] = "l103_insert"
    /\ HoldsWrite(inner[tenant_id[p]], p)
    /\ entries' = InsertKey(entries, tenant_id[p], key[p], id[p])
    /\ Keep(p, InsertKey(entries, tenant_id[p], key[p], id[p]))
    /\ stored' = stored \cup {<<tenant_id[p], key[p], id[p]>>}
    /\ inner' = [inner EXCEPT ![tenant_id[p]] = Release(@, p)]
    /\ outer' = Release(outer, p)
    /\ Return(p, TRUE, id[p])
    /\ UNCHANGED <<last_id, minted, calls>>

\* one step of insert by task p
InsertStep(p) ==
    \/ ContainsKey(p)
    \/ Case1GetNextId(p)
    \/ Case1WriteEntries(p)
    \/ Case1Insert(p)
    \/ LookupReadEntries(p)
    \/ LookupReadTenant(p)
    \/ LookupGetKey(p)
    \/ Case2GetNextId(p)
    \/ Case2WriteEntries(p)
    \/ Case2WriteTenant(p)
    \/ Case2Insert(p)
    \/ Case3(p)

\* a request arrives and is served by a free task; the tasks are anonymous,
\* so the free task with the least index takes it
FreeTask(p) == pc[p] = "idle" /\ \A q \in Tasks : pc[q] = "idle" => p <= q

Process(p) ==
    /\ FreeTask(p)
    /\ \E t \in Tenants, raw \in RawKeys :
          \/ ProcessOk(p, t, raw)
          \/ ProcessErr(p, t, raw)

\* ------------------------------------------------------- specifications
\* requests are served concurrently
Next == \E p \in Tasks : Process(p) \/ InsertStep(p)

Spec == Init /\ [][Next]_vars

\* requests are served one after the other: a call is accepted only when
\* no other call is in flight
AllIdle == \A p \in Tasks : pc[p] = "idle"

\* Key::new alone: one call of process on a fresh service, its key drawn
\* from KeyInputs
KeyNext ==
    /\ calls = 0
    /\ \E t \in Tenants, raw \in KeyInputs :
          \/ ProcessOk(1, t, raw)
          \/ ProcessErr(1, t, raw)

KeySpec == Init /\ [][KeyNext]_vars

SeqNext ==
    \E p \in Tasks :
        \/ AllIdle /\ Process(p)
        \/ InsertStep(p)

SeqSpec == Init /\ [][SeqNext]_vars

\* requests are served concurrently and the runtime keeps polling every
\* task that can make a step; the lock's queue is first-in first-out
FairSpec == Spec /\ \A p \in Tasks : WF_vars(InsertStep(p))

\* ----------------------------------------------------------------- claims
\* the answered calls of insert, by their position in the history
Answered == {i \in 1..Len(history) : history[i].status = "Ok"}
SamePair(a, b) == a.tenant = b.tenant /\ a.key = b.key
InFlight(p) == pc[p] \notin {"idle", "panicked"}

\* C1: all calls of insert for one (tenant, key) pair return the same id,
\* under any interleaving.
C1_SameIdForPair ==
    \A i, j \in Answered :
        SamePair(history[i], history[j]) => history[i].id = history[j].id

\* C2: among the calls of insert for one (tenant, key) pair at most one
\* returns is_new = true, whether the tenant was new or only the key was.
C2_OneNewPerPair ==
    \A i, j \in Answered :
        (SamePair(history[i], history[j]) /\ history[i].new /\ history[j].new)
            => i = j

\* C3: once all callers have returned, every key a caller inserted (the
\* only caller that got is_new = true for its pair) is in its tenant's
\* sub-map with the id that caller received: no key is lost to another
\* caller's creation of the sub-map.
C3_NoKeyLost ==
    AllIdle =>
        \A i \in Answered :
            (/\ history[i].new
             /\ \A j \in Answered :
                   (SamePair(history[i], history[j]) /\ history[j].new) => j = i)
            => /\ IsStored(history[i].tenant, history[i].key)
               /\ entries[history[i].tenant][history[i].key] = history[i].id

\* C4: no call returns is_new = true for a pair that was stored in the
\* registry when the call began.
C4_NoNewForStoredPair ==
    \A i \in Answered : history[i].present => ~history[i].new

\* C5: in every step, a pair stored with some id stays stored with that
\* id: no entry is removed and no id is overwritten.
C5_EntriesNeverChange ==
    [][\A t \in DOMAIN entries : \A k \in DOMAIN entries[t] :
          /\ t \in DOMAIN entries'
          /\ k \in DOMAIN entries'[t]
          /\ entries'[t][k] = entries[t][k]]_vars

\* every <<tenant, key, id>> that was ever stored or returned
Assigned ==
    stored \cup {<<history[i].tenant, history[i].key, history[i].id>> : i \in Answered}

\* C6: the ids stored for distinct (tenant, key) pairs are pairwise
\* distinct across all tenants, and an id ever stored or returned for one
\* pair is never stored or returned for another pair.
C6_IdsGloballyUnique ==
    /\ \A t1, t2 \in DOMAIN entries :
         \A k1 \in DOMAIN entries[t1], k2 \in DOMAIN entries[t2] :
            entries[t1][k1] = entries[t2][k2] => (t1 = t2 /\ k1 = k2)
    /\ \A a, b \in Assigned : a[3] = b[3] => (a[1] = b[1] /\ a[2] = b[2])

\* C6 witness: two tenants hold ids, and a call has been answered with an
\* id that was already on record
C6_Witness ==
    /\ \E t1, t2 \in DOMAIN entries : t1 # t2
    /\ \E i \in Answered : ~history[i].new

\* C7: the values get_next_id returns are 1, 2, 3, ... in the order of
\* the calls, none twice and none skipped, also with concurrent callers.
C7_NextIdCountsFromOne ==
    /\ \A i \in 1..Len(minted) : minted[i] = i
    /\ last_id = Len(minted) + 1

\* C7 witness: two tasks in flight at once have each drawn an id
C7_Witness ==
    /\ Len(minted) >= 2
    /\ \E p, q \in Tasks :
          /\ p # q
          /\ pc[p] \in {"l75_write", "l97_write"}
          /\ pc[q] \in {"l75_write", "l97_write"}
          /\ id[p] # id[q]

\* the earlier answered calls for the pair of the j-th answer
Earlier(j) == {i \in Answered : i < j /\ SamePair(history[i], history[j])}

\* C8: in a sequential execution the first insert of a pair returns
\* (true, id) and every later insert of that pair returns (false, id)
\* with the same id, whatever calls for other pairs come in between.
C8_SequentialIdempotence ==
    \A j \in Answered :
        /\ history[j].new <=> (Earlier(j) = {})
        /\ \A i \in Earlier(j) : history[i].id = history[j].id

\* C8 witness: a pair is presented, then another pair, then the first again
C8_Witness ==
    /\ AllIdle
    /\ \E i, j, m \in Answered :
          /\ i < m /\ m < j
          /\ SamePair(history[i], history[j])
          /\ ~SamePair(history[i], history[m])
          /\ history[i].new /\ ~history[j].new

\* the distinct pairs among the first j answers
PairsUpTo(j) ==
    {<<history[i].tenant, history[i].key>> : i \in {x \in Answered : x <= j}}

\* C9: in a sequential execution on a fresh registry the call presenting
\* the k-th distinct pair returns (true, k), whichever tenant it is for:
\* one counter for all tenants, no gaps.
C9_KthPairGetsK ==
    \A j \in Answered :
        (Earlier(j) = {}) =>
            (history[j].new /\ history[j].id = Cardinality(PairsUpTo(j)))

\* C9 witness: the first pair's tenant gets ids 1 and 3, another tenant
\* gets 2 in between
C9_Witness ==
    \E a, b, c \in Answered :
        /\ a < b /\ b < c
        /\ history[a].tenant # history[b].tenant
        /\ history[c].tenant = history[a].tenant
        /\ history[c].key # history[a].key
        /\ history[a].id = 1 /\ history[b].id = 2
        /\ history[c].new /\ history[c].id = 3

\* the step answers a call with the invalid-argument error
ErrorReturned ==
    /\ Len(history') = Len(history) + 1
    /\ history'[Len(history')].status = "InvalidArgument"

\* C10: a key that fails validation never enters insert; process answers
\* it with the invalid-argument error and changes neither the tenant
\* table, nor a sub-map, nor the id counter, nor a lock.
C10_InvalidKeyChangesNothing ==
    [][/\ \A p \in Tasks : key'[p] # NoKey => KEY_PATTERN(key'[p])
       /\ ErrorReturned =>
            /\ ~KEY_PATTERN(history'[Len(history')].key)
            /\ entries' = entries
            /\ last_id' = last_id
            /\ outer' = outer
            /\ inner' = inner
            /\ minted' = minted]_vars

\* C10 witness: an invalid key has been refused while the registry held
\* an entry and another call was in flight
C10_Witness ==
    /\ \E i \in 1..Len(history) : history[i].status = "InvalidArgument"
    /\ entries # EmptyMap
    /\ \E p \in Tasks : InFlight(p)

\* one uppercase letter, a dash, five lowercase letters or digits, a dash,
\* one uppercase letter: nine characters
NineCharForm(s) ==
    /\ Len(s) = 9
    /\ s[1] \in Upper
    /\ s[2] = "-"
    /\ \A i \in 3..7 : s[i] \in Lower \cup Digit
    /\ s[8] = "-"
    /\ s[9] \in Upper

\* C11: Key::new accepts a raw string exactly when it has the nine
\* character form; every other string (empty, wrong length, wrong case
\* placement, wrong separator) is answered with the key-format error.
C11_KeyNewAcceptsNineCharForm ==
    /\ calls = 0 =>
          \A raw \in KeyInputs :
              /\ NineCharForm(raw) <=> ENABLED ProcessOk(1, "3bd1c697", raw)
              /\ ~NineCharForm(raw) <=> ENABLED ProcessErr(1, "3bd1c697", raw)
    /\ \A p \in Tasks : pc[p] # "idle" => NineCharForm(key[p])
    /\ \A i \in 1..Len(history) :
          /\ history[i].status = "InvalidArgument"
          /\ ~NineCharForm(history[i].key)

\* C11 witness: a key of the form other than the samples has been
\* accepted
C11_Witness ==
    /\ pc[1] # "idle"
    /\ key[1] \notin RawKeys
    /\ \E i \in 3..7 : key[1][i] \in Digit
    /\ \E i \in 3..7 : key[1][i] \in Lower

\* task p holds, or waits for, the write guard of lock l
WantsWrite(l, p) ==
    \/ l.writer = p
    \/ \E i \in 1..Len(l.queue) : l.queue[i] = <<p, "w">>

\* C12: a call whose pair was stored when it began and has stayed stored
\* since is a pure read: none of its steps calls get_next_id, asks for a
\* write guard or changes the tenant table or a sub-map, and it returns
\* (false, the stored id).
C12_StoredPairIsPureRead ==
    [][\A p \in Tasks :
          (kept[p] /\ pc'[p] # pc[p]) =>
              /\ last_id' = last_id
              /\ minted' = minted
              /\ entries' = entries
              /\ ~WantsWrite(outer', p)
              /\ \A t \in Tenants : ~WantsWrite(inner'[t], p)
              /\ pc'[p] \in {"l83_read", "l85_get", "l89_get", "idle"}
              /\ pc'[p] = "idle" =>
                    history' = Append(history,
                        [tenant |-> tenant_id[p], key |-> key[p],
                         status |-> "Ok", new |-> FALSE,
                         id |-> entries[tenant_id[p]][key[p]],
                         present |-> TRUE])]_vars

\* C12 witness: a call for a pair stored since it began is about to return
\* its id while another call is on its way to write
C12_Witness ==
    /\ \E p \in Tasks : pc[p] \in {"l75_write", "l77_insert", "l97_write"}
    /\ \E p \in Tasks : kept[p] /\ pc[p] = "l89_get"

\* task p waits in the queue of lock l; task p holds a guard of lock l
Waits(l, p) == \E i \in 1..Len(l.queue) : l.queue[i][1] = p
Holds(l, p) == HoldsRead(l, p) \/ HoldsWrite(l, p)

\* task q waits for the tenant table behind task p: p holds a guard of the
\* table or stands before q in its queue
BlockedBy(q, p) ==
    /\ Waits(outer, q)
    /\ \/ Holds(outer, p)
       \/ \E i, j \in 1..Len(outer.queue) :
             i < j /\ outer.queue[i][1] = p /\ outer.queue[j][1] = q

\* lines 70-78: the task is testing for, or creating, a tenant's sub-map
CreatingTenant(p) ==
    pc[p] \in {"l70_contains_key", "l72_get_next_id", "l75_write", "l77_insert"}

\* C13: a call for one tenant is never blocked by a call for a different
\* tenant, except while that other call is testing for and creating a
\* brand-new tenant's sub-map; adding a key to an existing tenant never
\* makes a call for another tenant wait.  The exception is read widely:
\* it covers the blocking call on lines 70-78 and the blocked call waiting
\* to insert its own new tenant on line 77.
C13_TenantsNeverBlockEachOther ==
    \A p, q \in Tasks :
        ( /\ p # q
          /\ InFlight(p)
          /\ InFlight(q)
          /\ tenant_id[p] # tenant_id[q]
          /\ BlockedBy(q, p) )
        => (CreatingTenant(p) \/ pc[q] = "l77_insert")

\* C15: no caller holds the outer lock, read or write, while it waits for
\* or holds the inner lock of a tenant.
C15_OuterReleasedBeforeInner ==
    \A p \in Tasks, t \in DOMAIN inner :
        Holds(outer, p) => ~(Holds(inner[t], p) \/ Waits(inner[t], p))

\* C16: between a caller's observation that a tenant (a key) is absent and
\* its insertion of the sub-map (the key), no other caller inserts that
\* tenant (that key).
C16_AtomicInsertIfAbsent ==
    \A p \in Tasks :
        /\ pc[p] \in {"l72_get_next_id", "l75_write", "l77_insert"}
              => ~ContainsTenant(tenant_id[p])
        /\ pc[p] \in {"l95_get_next_id", "l97_write", "l99_get", "l103_insert"}
              => ~IsStored(tenant_id[p], key[p])

\* C14: under fair scheduling and fair lock granting every call of insert
\* with a valid key eventually returns its (is_new, id); no state leaves
\* the callers waiting on the outer and inner locks for ever.
C14_EveryCallReturns ==
    \A p \in Tasks : (pc[p] # "idle") ~> (pc[p] = "idle")

\* C14 witness: a call waits for the tenant table while another call holds
\* the write guards of the table and of a tenant's sub-map
C14_Witness ==
    \E p, q \in Tasks :
        /\ Waits(outer, p)
        /\ HoldsWrite(outer, q)
        /\ HoldsWrite(inner[tenant_id[q]], q)

\* the positions of insert that follow a presence check that found the
\* tenant (lines 81-105)
PastPresenceCheck ==
    {"l83_read", "l85_get", "l89_get", "l95_get_next_id", "l97_write",
     "l99_get", "l103_insert"}

\* C17: a tenant once present in the tenant table is present in every later
\* state, so the lookups of the tenant that follow a successful presence
\* check (the two unwrap() calls) always find it and never panic.
C17_TenantStaysPresent ==
    /\ \A s \in stored : ContainsTenant(s[1])
    /\ \A p \in Tasks :
          /\ pc[p] # "panicked"
          /\ pc[p] \in PastPresenceCheck => ContainsTenant(tenant_id[p])

\* C17 witness: a call has passed the unwrap() of line 99 while another
\* call, for another tenant, is in flight
C17_Witness ==
    \E p, q \in Tasks :
        /\ pc[p] = "l103_insert"
        /\ InFlight(q)
        /\ tenant_id[q] # tenant_id[p]

\* the positions of insert that hold a freshly minted id and lead to its
\* insertion (lines 73-77 and 96-103)
HoldsMintedId == {"l75_write", "l77_insert", "l97_write", "l99_get", "l103_insert"}

\* the answers (true, m) given so far; the calls in flight that hold m
NewAnswers(m) == {i \in Answered : history[i].new /\ history[i].id = m}
Minters(m) == {p \in Tasks : pc[p] \in HoldsMintedId /\ id[p] = m}

\* C18: every id minted by get_next_id inside insert is returned with
\* is_new = true by exactly the call that minted it: no id is minted
\* twice, an id is held by its minter until that call answers (true, id),
\* no two calls answer is_new = true with the same id, and no answer
\* is_new = true carries an id that was not minted.
C18_MintedIdReturnedOnce ==
    /\ \A a, b \in 1..Len(minted) : minted[a] = minted[b] => a = b
    /\ \A a \in 1..Len(minted) :
          Cardinality(NewAnswers(minted[a])) + Cardinality(Minters(minted[a])) = 1
    /\ \A i \in Answered :
          history[i].new => \E a \in 1..Len(minted) : minted[a] = history[i].id
    /\ \A p \in Tasks :
          pc[p] \in HoldsMintedId => \E a \in 1..Len(minted) : minted[a] = id[p]

\* C18 witness: three ids were minted by overlapping calls, two of them
\* already answered as new and the third about to be inserted
C18_Witness ==
    /\ Len(minted) = 3
    /\ \E i, j \in Answered :
          i # j /\ history[i].new /\ history[j].new
    /\ \E p \in Tasks : pc[p] \in {"l77_insert", "l103_insert"}

\* C19: when a call of insert returns (false, id) for a pair, that id is
\* the one stored for that pair at the moment of the read, it was minted,
\* and it was answered with is_new = true to a call for the same pair.
C19_OldIdIsThePairsId ==
    [][\A p \in Tasks :
          ( /\ pc[p] # "idle"
            /\ pc'[p] = "idle"
            /\ ~history'[Len(history')].new )
          => LET r == history'[Len(history')] IN
                /\ Len(history') = Len(history) + 1
                /\ r.tenant = tenant_id[p]
                /\ r.key = key[p]
                /\ IsStored(r.tenant, r.key)
                /\ entries[r.tenant][r.key] = r.id
                /\ \E a \in 1..Len(minted) : minted[a] = r.id
                /\ \E j \in Answered :
                      /\ history[j].new
                      /\ SamePair(history[j], r)
                      /\ history[j].id = r.id]_vars

\* C19 witness: a call has been answered (false, id) for a pair of a tenant
\* that holds two keys
C19_Witness ==
    \E i \in Answered :
        /\ ~history[i].new
        /\ ContainsTenant(history[i].tenant)
        /\ Cardinality(DOMAIN entries[history[i].tenant]) = 2

====
